---------------------------- MODULE Spec2Model ----------------------------
(***************************************************************************)
(* Model of the export benchmark in main.go: three goroutines              *)
(* (fetchWithCursor, fetchWithOffsetLimit, fetchWithCustomCursor) read the *)
(* rows of pgbench_accounts with aid <= limit and write them to their own  *)
(* CSV file; each sends one Result on a channel of capacity 1; a           *)
(* supervisor goroutine waits on the WaitGroup and closes the channel;     *)
(* main drains the channel.                                                *)
(***************************************************************************)
EXTENDS Integers, Sequences, FiniteSets, Bags, TLC

(* ------------------------------ bounds -------------------------------- *)

\* primary keys of the table are drawn from MinKey..MaxKey in the runs where
\* no call fails
MaxKey == 4

\* and from MinKey..MaxFaultKey in the runs where calls of one strategy may fail
MaxFaultKey == 2

\* and from MinKey..MaxLiveKey in the runs checked under fair scheduling
MaxLiveKey == 1

\* DATA_BATCH_SIZE is drawn from 1..MaxBatch
MaxBatch == 3

\* and from 1..MaxLiveBatch in the runs checked under fair scheduling
MaxLiveBatch == 2

\* the keyset strategy's queries are counted up to MaxKeysetQueries
MaxKeysetQueries == 2

(* ------------------------- program constants -------------------------- *)

\* make(chan Result, 1)
ChanCap == 1

\* wg.Add(3)
WgAdd == 3

\* var lastId int : Go's zero value
LastIdInit == 0

\* offset := 0
OffsetInit == 0

Cursor == "cursor"
OffsetLimit == "offset_limit"
CustomCursor == "custom_cursor"

\* the goroutines main starts with `go`
Strategies == {Cursor, OffsetLimit, CustomCursor}

\* lowest primary key an input table may hold: the zero value of lastId, so
\* that tables may hold a key the first keyset query does not select
MinKey == LastIdInit

\* no strategy's calls fail
Nobody == "nobody"

\* DATA_LIMIT values tried: the highest key of the tables (every row in
\* range) and one below it (a row out of range)
Limits(maxKey) == {maxKey - 1, maxKey}

BatchSizes(maxBatch) == 1..maxBatch

NoErr == "nil"

VARIABLES
    table,      \* set of rows <<aid, bid, abalance>> of pgbench_accounts
    limit,      \* var limit int
    batchSize,  \* var batchSize int
    pc,         \* position of each strategy goroutine
    defers,     \* each goroutine's stack of deferred calls
    result,     \* each goroutine's local `result`
    sink,       \* each strategy's file/writer: "none","open","flushed","closed","closed unflushed"
    sinkAtDone, \* the state of the sink when the goroutine's wg.Done() ran
    written,    \* records handed to writer.Write, in order
    rows,       \* rows of the current pgx.Rows not yet reached by Next()
    lastId,     \* fetchWithCustomCursor's lastId
    offset,     \* fetchWithOffsetLimit's offset
    tx,         \* cursor strategy's transaction
    srvCursor,  \* rows my_cursor has not yet returned
    commitErr,  \* the value fetchWithCursor returns from tx.Commit
    errorChan,  \* buffered channel contents
    chanClosed, \* close(errorChan) happened
    closeCount, \* number of close(errorChan) calls
    wgCount,    \* WaitGroup counter
    sent,       \* number of sends each strategy performed
    supPc,      \* supervisor goroutine
    mainPc,     \* main's drain loop
    consumed,   \* bag of Results main has received and printed
    broken,     \* the strategy whose database and file calls may fail in this run
    fault,      \* the call of each strategy that returned an error, "none" if none did
    queries,    \* number of batch queries each strategy has issued (the keyset strategy's up to MaxKeysetQueries)
    queried,    \* the lastId or offset of each strategy's latest query, <<>> before it
    txLog       \* the statements of the cursor strategy's transaction, in order ("!" marks a failed one)

vars == <<table, limit, batchSize, pc, defers, result, sink, sinkAtDone, written,
          rows, lastId, offset, tx, srvCursor, commitErr, errorChan, chanClosed,
          closeCount, wgCount, sent, supPc, mainPc, consumed, broken, fault,
          queries, queried, txLog>>

(* ------------------------- fmt.Sprintf("%d") --------------------------- *)

Digits == <<"0", "1", "2", "3", "4", "5", "6", "7", "8", "9">>

RECURSIVE UDec(_)
UDec(n) == IF n < 10 THEN <<Digits[n + 1]>>
           ELSE UDec(n \div 10) \o <<Digits[(n % 10) + 1]>>

\* fmt.Sprintf("%d", n) as a sequence of characters
FormatInt(n) == IF n < 0 THEN <<"-">> \o UDec(-n) ELSE UDec(n)

\* record := []string{Sprintf(aid), Sprintf(bid), Sprintf(abalance)}
Record(row) == <<FormatInt(row[1]), FormatInt(row[2]), FormatInt(row[3])>>

DigitVal(c) == CHOOSE d \in 0..9 : Digits[d + 1] = c

RECURSIVE UParse(_)
UParse(s) == IF Len(s) = 0 THEN 0
             ELSE 10 * UParse(SubSeq(s, 1, Len(s) - 1)) + DigitVal(s[Len(s)])

\* reads a decimal field of the artifact back
ParseInt(s) == IF Len(s) > 0 /\ s[1] = "-" THEN 0 - UParse(Tail(s)) ELSE UParse(s)

(* ------------------------------ the table ------------------------------ *)

\* the row stored under primary key k (bid and abalance depend on k so
\* that rows differ in every column)
SampleRow(k) == <<k, (k % 2) + 1, 0 - (7 * k)>>

Tables(maxKey) == { { SampleRow(k) : k \in ks } : ks \in SUBSET (MinKey..maxKey) }

(* -------------------------------- SQL ---------------------------------- *)

RECURSIVE OrderByAidDesc(_)
\* the ordering with the direction reversed (ORDER BY aid DESC)
OrderByAidDesc(S) ==
    IF S = {} THEN <<>>
    ELSE LET m == CHOOSE r \in S : \A q \in S : r[1] >= q[1]
         IN <<m>> \o OrderByAidDesc(S \ {m})

RECURSIVE OrderByAidAsc(_)
\* ORDER BY aid ASC
OrderByAidAsc(S) ==
    IF S = {} THEN <<>>
    ELSE LET m == CHOOSE r \in S : \A q \in S : r[1] <= q[1]
         IN <<m>> \o OrderByAidAsc(S \ {m})

\* LIMIT n / FETCH n
Take(s, n) == SubSeq(s, 1, IF n < Len(s) THEN n ELSE Len(s))

\* OFFSET n
Drop(s, n) == SubSeq(s, n + 1, Len(s))

\* the cursor's query without its WHERE clause
CursorSelectUnbounded(t, lim) == OrderByAidAsc(t)

\* SELECT aid, bid, abalance FROM pgbench_accounts WHERE aid <= limit ORDER BY aid ASC
CursorSelect(t, lim) == OrderByAidAsc({ r \in t : r[1] <= lim })

\* FETCH batchSize FROM my_cursor
CursorFetch(cur, bs) == Take(cur, bs)

\* the keyset query without its upper bound (WHERE aid > lastId only)
KeysetSelectUnbounded(t, last, lim, bs) ==
    Take(OrderByAidAsc({ r \in t : r[1] > last }), bs)

\* ... WHERE aid > lastId AND aid <= limit ORDER BY aid ASC LIMIT batchSize
KeysetSelect(t, last, lim, bs) ==
    Take(OrderByAidAsc({ r \in t : r[1] > last /\ r[1] <= lim }), bs)

\* ... WHERE aid <= limit ORDER BY aid ASC OFFSET offset LIMIT batchSize
OffsetSelect(t, lim, off, bs) ==
    Take(Drop(OrderByAidAsc({ r \in t : r[1] <= lim }), off), bs)

\* the rows the batch query of strategy s returns in the current state
QueryRows(s) ==
    IF s = Cursor THEN CursorFetch(srvCursor, batchSize)
    ELSE IF s = CustomCursor THEN KeysetSelect(table, lastId, limit, batchSize)
    ELSE OffsetSelect(table, limit, offset, batchSize)

\* `if !rows.Next() {break}` : the call advances pgx.Rows onto the first row,
\* so the `for rows.Next()` that follows starts from the second one
AfterFirstNext(rs) == Tail(rs)

\* an offset advanced by one row instead of one batch
NextOffsetByOne(off, bs) == off + 1

\* offset += batchSize
NextOffset(off, bs) == off + bs

(* ------------------------------ Results -------------------------------- *)

\* result := Result{Type: s}
NewResult(s) == [Type |-> s, Err |-> NoErr, Message |-> ""]

\* fmt.Errorf(context + ": %w", err); result.Err = err
WithErr(r, context) == [r EXCEPT !.Err = context]

\* result.Message = fmt.Sprintf("<name> done in %.2f second", ...)
DoneMessage(s) ==
    IF s = Cursor THEN "cursor done"
    ELSE IF s = CustomCursor THEN "custom cursor done"
    ELSE "offset limit done"

\* the error stored on a failed writer.Write: fetchWithOffsetLimit discards
\* the value of fmt.Errorf and stores the unwrapped error
WriteErr(s) ==
    IF s = OffsetLimit THEN "write error (unwrapped)"
    ELSE "error writing record to CSV"

(* -------------------------------- Init --------------------------------- *)

\* the state when main has started the goroutines; the table holds keys up
\* to maxClean if no call may fail and up to maxFaulty otherwise
InitWith(maxClean, maxFaulty, maxBatch) ==
    /\ broken \in Strategies \cup {Nobody}
    /\ LET maxKey == IF broken = Nobody THEN maxClean ELSE maxFaulty
       IN /\ table \in Tables(maxKey)
          /\ limit \in Limits(maxKey)
    /\ batchSize \in BatchSizes(maxBatch)
    /\ pc = [s \in Strategies |-> "start"]
    /\ defers = [s \in Strategies |-> <<>>]
    /\ result = [s \in Strategies |-> NewResult(s)]
    /\ sink = [s \in Strategies |-> "none"]
    /\ sinkAtDone = [s \in Strategies |-> "pending"]
    /\ written = [s \in Strategies |-> <<>>]
    /\ rows = [s \in Strategies |-> <<>>]
    /\ lastId = LastIdInit
    /\ offset = OffsetInit
    /\ tx = "none"
    /\ srvCursor = <<>>
    /\ commitErr = FALSE
    /\ errorChan = <<>>
    /\ chanClosed = FALSE
    /\ closeCount = 0
    /\ wgCount = WgAdd
    /\ sent = [s \in Strategies |-> 0]
    /\ supPc = "wait"
    /\ mainPc = "range"
    /\ consumed = EmptyBag
    /\ fault = [s \in Strategies |-> "none"]
    /\ queries = [s \in Strategies |-> 0]
    /\ queried = [s \in Strategies |-> <<>>]
    /\ txLog = <<>>

Init == InitWith(MaxKey, MaxFaultKey, MaxBatch)

\* the same start on the smaller tables used under fair scheduling
FairInit == InitWith(MaxLiveKey, MaxLiveKey, MaxLiveBatch)

(* --------------------------- strategy steps ---------------------------- *)

Inputs == <<table, limit, batchSize, broken>>
QueryLog == <<queries, queried>>
Harness == <<errorChan, chanClosed, closeCount, wgCount, sent, supPc, mainPc, consumed>>

\* a call of strategy s to the database or the file system returns an error
Fault(s, call) ==
    /\ broken = s
    /\ fault' = [fault EXCEPT ![s] = call]

\* an error path that returns without `res <- result`
FailWithoutSend(s, call, context) ==
    /\ Fault(s, call)
    /\ result' = [result EXCEPT ![s] = WithErr(result[s], context)]
    /\ pc' = [pc EXCEPT ![s] = "return"]

\* result.Err = err; then the goroutine is at `res <- result`
Fail(s, call, context) ==
    /\ Fault(s, call)
    /\ result' = [result EXCEPT ![s] = WithErr(result[s], context)]
    /\ pc' = [pc EXCEPT ![s] = "send"]

\* a prologue that defers wg.Done() last, so that it runs first
StartDoneDeferredLast(s) ==
    /\ pc[s] = "start"
    /\ \/ /\ Fail(s, "create", "error creating file")
          /\ defers' = [defers EXCEPT ![s] = <<"wg.Done">>]
          /\ UNCHANGED sink
       \/ /\ defers' = [defers EXCEPT ![s] = <<"file.Close", "writer.Flush", "wg.Done">>]
          /\ sink' = [sink EXCEPT ![s] = "open"]
          /\ pc' = [pc EXCEPT ![s] = IF s = Cursor THEN "begin" ELSE "query"]
          /\ UNCHANGED <<result, fault>>
    /\ UNCHANGED <<txLog, QueryLog, Inputs, Harness, sinkAtDone, written, rows, lastId, offset, tx,
                   srvCursor, commitErr>>

\* defer wg.Done(); os.Create; defer file.Close(); csv.NewWriter; defer writer.Flush()
Start(s) ==
    /\ pc[s] = "start"
    /\ \/ /\ Fail(s, "create", "error creating file")
          /\ defers' = [defers EXCEPT ![s] = <<"wg.Done">>]
          /\ UNCHANGED sink
       \/ /\ defers' = [defers EXCEPT ![s] = <<"wg.Done", "file.Close", "writer.Flush">>]
          /\ sink' = [sink EXCEPT ![s] = "open"]
          /\ pc' = [pc EXCEPT ![s] = IF s = Cursor THEN "begin" ELSE "query"]
          /\ UNCHANGED <<result, fault>>
    /\ UNCHANGED <<txLog, QueryLog, Inputs, Harness, sinkAtDone, written, rows, lastId, offset, tx,
                   srvCursor, commitErr>>

\* tx, err := pool.Begin(ctx); defer tx.Rollback(ctx)
BeginTx ==
    /\ pc[Cursor] = "begin"
    /\ \/ /\ Fail(Cursor, "begin", "failed to begin transaction")
          /\ txLog' = Append(txLog, "begin!")
          /\ UNCHANGED <<tx, defers>>
       \/ /\ tx' = "open"
          /\ txLog' = Append(txLog, "begin")
          /\ defers' = [defers EXCEPT ![Cursor] = Append(@, "tx.Rollback")]
          /\ pc' = [pc EXCEPT ![Cursor] = "declare"]
          /\ UNCHANGED <<result, fault>>
    /\ UNCHANGED <<QueryLog, Inputs, Harness, sink, sinkAtDone, written, rows, lastId, offset,
                   srvCursor, commitErr>>

\* tx.Exec(ctx, "DECLARE my_cursor CURSOR FOR SELECT ... WHERE aid <= limit ORDER BY aid ASC")
DeclareCursor ==
    /\ pc[Cursor] = "declare"
    /\ \/ /\ Fail(Cursor, "declare", "failed to declare cursor")
          /\ txLog' = Append(txLog, "declare!")
          /\ UNCHANGED srvCursor
       \/ /\ srvCursor' = CursorSelect(table, limit)
          /\ txLog' = Append(txLog, "declare")
          /\ pc' = [pc EXCEPT ![Cursor] = "query"]
          /\ UNCHANGED <<result, fault>>
    /\ UNCHANGED <<QueryLog, Inputs, Harness, defers, sink, sinkAtDone, written, rows, lastId,
                   offset, tx, commitErr>>

\* the loop is left by `break`: the cursor strategy goes on to CLOSE, the
\* other two set result.Message and go to `res <- result`
Break(s) ==
    IF s = Cursor
    THEN /\ pc' = [pc EXCEPT ![s] = "close"]
         /\ UNCHANGED result
    ELSE /\ pc' = [pc EXCEPT ![s] = "send"]
         /\ result' = [result EXCEPT ![s].Message = DoneMessage(s)]

\* the transaction's log after strategy s issued a statement with outcome e
Logged(s, e) == IF s = Cursor THEN Append(txLog, e) ELSE txLog

\* the value spliced into the text of strategy s's batch query: lastId,
\* offset, or nothing for FETCH
QueryParam(s) ==
    IF s = CustomCursor THEN <<lastId>>
    ELSE IF s = OffsetLimit THEN <<offset>>
    ELSE <<"my_cursor">>

\* the count after one more query; the keyset strategy can repeat a query
\* without end, and its count stops at MaxKeysetQueries
CountQuery(s, n) ==
    IF s = CustomCursor /\ n >= MaxKeysetQueries THEN n ELSE n + 1

\* rows, err := Query(ctx, query); if err != nil {...}; if !rows.Next() {rows.Close(); break}
Query(s) ==
    /\ pc[s] = "query"
    /\ queries' = [queries EXCEPT ![s] = CountQuery(s, @)]
    /\ queried' = [queried EXCEPT ![s] = QueryParam(s)]
    /\ \/ \* the query call returns an error
          /\ Fail(s, "query", "failed to fetch data")
          /\ txLog' = Logged(s, "fetch!")
          /\ UNCHANGED <<rows, srvCursor>>
       \/ LET rs == QueryRows(s) IN
          /\ srvCursor' = IF s = Cursor THEN Drop(srvCursor, Len(rs)) ELSE srvCursor
          /\ \/ \* no row: Next() is false
                /\ rs = <<>>
                /\ Break(s)
                /\ txLog' = Logged(s, "fetch0")
                /\ UNCHANGED <<rows, fault>>
             \/ \* Next() is true and stands on the first row
                /\ rs # <<>>
                /\ rows' = [rows EXCEPT ![s] = AfterFirstNext(rs)]
                /\ pc' = [pc EXCEPT ![s] = "rows"]
                /\ txLog' = Logged(s, "fetch")
                /\ UNCHANGED <<result, fault>>
             \/ \* Next() is false because reading the first row failed;
                \* rows.Err() is not looked at on this path
                /\ rs # <<>>
                /\ Fault(s, "first next")
                /\ Break(s)
                /\ txLog' = Logged(s, "next!")
                /\ UNCHANGED rows
    /\ UNCHANGED <<Inputs, Harness, defers, sink, sinkAtDone, written, lastId, offset,
                   tx, commitErr>>

\* one turn of `for rows.Next() { Scan; Write; (lastId = aid) }`, or its exit:
\* rows.Close(); if rows.Err() != nil {...}; (offset += batchSize)
NextRow(s) ==
    /\ pc[s] = "rows"
    /\ \/ /\ rows[s] # <<>>
          /\ \/ /\ Fail(s, "scan", "failed to scan row")
                /\ UNCHANGED <<written, rows, lastId>>
             \/ /\ Fail(s, "write", WriteErr(s))
                /\ UNCHANGED <<written, rows, lastId>>
             \/ /\ written' = [written EXCEPT ![s] = Append(@, Record(Head(rows[s])))]
                /\ rows' = [rows EXCEPT ![s] = Tail(@)]
                /\ lastId' = IF s = CustomCursor THEN Head(rows[s])[1] ELSE lastId
                /\ UNCHANGED <<pc, result, fault>>
          /\ UNCHANGED offset
       \/ \* Next() is false because of an error, with rows left unread or
          \* after the batch's last row: rows.Err() != nil
          /\ Fail(s, "iterate", "error occurred while iterating rows")
          /\ rows' = [rows EXCEPT ![s] = <<>>]
          /\ UNCHANGED <<written, lastId, offset>>
       \/ /\ rows[s] = <<>>
          /\ offset' = IF s = OffsetLimit THEN NextOffset(offset, batchSize) ELSE offset
          /\ pc' = [pc EXCEPT ![s] = "query"]
          /\ UNCHANGED <<result, written, rows, lastId, fault>>
    /\ UNCHANGED <<txLog, QueryLog, Inputs, Harness, defers, sink, sinkAtDone, tx, srvCursor,
                   commitErr>>

\* tx.Exec(ctx, "CLOSE my_cursor")
CloseCursor ==
    /\ pc[Cursor] = "close"
    /\ \/ /\ Fail(Cursor, "close", "failed to close cursor")
          /\ txLog' = Append(txLog, "close!")
          /\ UNCHANGED srvCursor
       \/ /\ srvCursor' = <<>>
          /\ txLog' = Append(txLog, "close")
          /\ pc' = [pc EXCEPT ![Cursor] = "commit"]
          /\ UNCHANGED <<result, fault>>
    /\ UNCHANGED <<QueryLog, Inputs, Harness, defers, sink, sinkAtDone, written, rows, lastId,
                   offset, tx, commitErr>>

\* commit := tx.Commit(ctx); result.Message = "cursor done ..."; (res <- result; return commit)
Commit ==
    /\ pc[Cursor] = "commit"
    /\ \/ /\ tx' = "committed"
          /\ commitErr' = FALSE
          /\ txLog' = Append(txLog, "commit")
          /\ UNCHANGED fault
       \/ /\ Fault(Cursor, "commit")
          /\ tx' = "aborted"
          /\ commitErr' = TRUE
          /\ txLog' = Append(txLog, "commit!")
    /\ result' = [result EXCEPT ![Cursor].Message = DoneMessage(Cursor)]
    /\ pc' = [pc EXCEPT ![Cursor] = "send"]
    /\ UNCHANGED <<QueryLog, Inputs, Harness, defers, sink, sinkAtDone, written, rows, lastId,
                   offset, srvCursor>>

\* res <- result   (blocks while the buffer is full)
Send(s) ==
    /\ pc[s] = "send"
    /\ ~chanClosed
    /\ Len(errorChan) < ChanCap
    /\ errorChan' = Append(errorChan, result[s])
    /\ sent' = [sent EXCEPT ![s] = @ + 1]
    /\ pc' = [pc EXCEPT ![s] = "return"]
    /\ UNCHANGED <<txLog, QueryLog, Inputs, defers, result, sink, sinkAtDone, written, rows,
                   lastId, offset, tx, srvCursor, commitErr, chanClosed, closeCount,
                   wgCount, supPc, mainPc, consumed, fault>>

\* the effect of one deferred call d on st = [tx, sink, wg, atDone]; a
\* Flush moves the buffered records to the file if it is still open, and a
\* Close before the Flush loses them
Deferred(d, st) ==
    [tx     |-> IF d = "tx.Rollback" /\ st.tx = "open" THEN "rolledback" ELSE st.tx,
     sink   |-> IF d = "writer.Flush"
                THEN (IF st.sink = "open" THEN "flushed" ELSE st.sink)
                ELSE IF d = "file.Close"
                     THEN (IF st.sink = "flushed" THEN "closed" ELSE "closed unflushed")
                     ELSE st.sink,
     wg     |-> IF d = "wg.Done" THEN st.wg - 1 ELSE st.wg,
     atDone |-> IF d = "wg.Done" THEN st.sink ELSE st.atDone]

RECURSIVE RunDeferred(_, _)
\* the deferred calls run last-in first-out
RunDeferred(stack, st) ==
    IF stack = <<>> THEN st
    ELSE RunDeferred(SubSeq(stack, 1, Len(stack) - 1), Deferred(stack[Len(stack)], st))

\* return: the goroutine's deferred calls run, wg.Done() last
Return(s) ==
    /\ pc[s] = "return"
    /\ LET st == RunDeferred(defers[s], [tx |-> tx, sink |-> sink[s], wg |-> wgCount,
                                         atDone |-> sinkAtDone[s]])
       IN /\ tx' = IF s = Cursor THEN st.tx ELSE tx
          /\ sink' = [sink EXCEPT ![s] = st.sink]
          /\ sinkAtDone' = [sinkAtDone EXCEPT ![s] = st.atDone]
          /\ wgCount' = st.wg
          /\ txLog' = IF s = Cursor /\ tx = "open" /\ st.tx = "rolledback"
                       THEN Append(txLog, "rollback") ELSE txLog
    /\ defers' = [defers EXCEPT ![s] = <<>>]
    /\ pc' = [pc EXCEPT ![s] = "done"]
    /\ UNCHANGED <<QueryLog, Inputs, result, written, rows, lastId, offset, srvCursor,
                   commitErr, errorChan, chanClosed, closeCount, sent, supPc,
                   mainPc, consumed, fault>>

(* ------------------------------- harness ------------------------------- *)

\* a harness whose supervisor closes the channel without wg.Wait()
SupervisorWithoutWait ==
    /\ supPc = "wait"
    /\ chanClosed' = TRUE
    /\ closeCount' = closeCount + 1
    /\ supPc' = "done"
    /\ UNCHANGED <<txLog, QueryLog, Inputs, pc, defers, result, sink, sinkAtDone, written, rows,
                   lastId, offset, tx, srvCursor, commitErr, errorChan, wgCount,
                   sent, mainPc, consumed, fault>>

\* go func() { wg.Wait(); close(errorChan) }()
Supervisor ==
    /\ supPc = "wait"
    /\ wgCount = 0
    /\ chanClosed' = TRUE
    /\ closeCount' = closeCount + 1
    /\ supPc' = "done"
    /\ UNCHANGED <<txLog, QueryLog, Inputs, pc, defers, result, sink, sinkAtDone, written, rows,
                   lastId, offset, tx, srvCursor, commitErr, errorChan, wgCount,
                   sent, mainPc, consumed, fault>>

\* for result := range errorChan { print result.Err or result.Message }
Receive ==
    /\ mainPc = "range"
    /\ errorChan # <<>>
    /\ consumed' = consumed (+) SetToBag({Head(errorChan)})
    /\ errorChan' = Tail(errorChan)
    /\ UNCHANGED <<txLog, QueryLog, Inputs, pc, defers, result, sink, sinkAtDone, written, rows,
                   lastId, offset, tx, srvCursor, commitErr, chanClosed,
                   closeCount, wgCount, sent, supPc, mainPc, fault>>

\* the range loop ends: the channel is closed and empty
MainExit ==
    /\ mainPc = "range"
    /\ errorChan = <<>>
    /\ chanClosed
    /\ mainPc' = "done"
    /\ UNCHANGED <<txLog, QueryLog, Inputs, pc, defers, result, sink, sinkAtDone, written, rows,
                   lastId, offset, tx, srvCursor, commitErr, errorChan, chanClosed,
                   closeCount, wgCount, sent, supPc, consumed, fault>>

fetchWithCursor ==
    \/ Start(Cursor) \/ BeginTx \/ DeclareCursor \/ Query(Cursor) \/ NextRow(Cursor)
    \/ CloseCursor \/ Commit \/ Send(Cursor) \/ Return(Cursor)

fetchWithCustomCursor ==
    \/ Start(CustomCursor) \/ Query(CustomCursor) \/ NextRow(CustomCursor)
    \/ Send(CustomCursor) \/ Return(CustomCursor)

fetchWithOffsetLimit ==
    \/ Start(OffsetLimit) \/ Query(OffsetLimit) \/ NextRow(OffsetLimit)
    \/ Send(OffsetLimit) \/ Return(OffsetLimit)

Main == Receive \/ MainExit

Next ==
    \/ fetchWithCursor
    \/ fetchWithCustomCursor
    \/ fetchWithOffsetLimit
    \/ Supervisor
    \/ Main

Spec == Init /\ [][Next]_vars

\* the Go scheduler runs every runnable goroutine eventually
FairSpec ==
    /\ FairInit
    /\ [][Next]_vars
    /\ WF_vars(fetchWithCursor)
    /\ WF_vars(fetchWithCustomCursor)
    /\ WF_vars(fetchWithOffsetLimit)
    /\ WF_vars(Supervisor)
    /\ WF_vars(Main)


(* ---------------------- properties of the artifacts -------------------- *)

\* the rows of the table the extraction bound selects
SourceRows == { r \in table : r[1] <= limit }

\* a record of the artifact read back as a row
ArtifactRow(rec) == <<ParseInt(rec[1]), ParseInt(rec[2]), ParseInt(rec[3])>>

\* the primary keys of strategy s's artifact, in file order
ArtifactKeys(s) == [i \in 1..Len(written[s]) |-> ParseInt(written[s][i][1])]

\* the set of rows in strategy s's artifact
ArtifactRowSet(s) == { ArtifactRow(written[s][i]) : i \in 1..Len(written[s]) }

\* strategy s returned, none of its calls failed, and its Result has no error
FinishedWithoutError(s) ==
    /\ pc[s] = "done"
    /\ fault[s] = "none"
    /\ result[s].Err = NoErr

\* the artifact holds each selected row once and nothing else
ExactlyTheSourceRows(s) ==
    /\ ArtifactRowSet(s) = SourceRows
    /\ Len(written[s]) = Cardinality(SourceRows)

\* C1: every strategy that finishes without error has written exactly the
\* rows with primary key <= limit, each exactly once.
C1_Completeness ==
    \A s \in Strategies : FinishedWithoutError(s) => ExactlyTheSourceRows(s)

\* C9: at every point of every strategy's run the primary keys written so
\* far to its artifact are strictly ascending.
C9_OrderInvariant ==
    \A s \in Strategies :
        \A i, j \in 1..Len(written[s]) :
            i < j => ArtifactKeys(s)[i] < ArtifactKeys(s)[j]

\* two rows written by two different batches of the keyset and of the
\* offset/limit strategy (a batch of two writes at most one row)
C9_Witness ==
    /\ batchSize = 2
    /\ Len(written[CustomCursor]) = 2
    /\ Len(written[OffsetLimit]) = 2
    /\ Len(written[Cursor]) = 2

\* C10: in every reachable state every row written to any artifact has
\* primary key <= limit.
C10_BoundInvariant ==
    \A s \in Strategies :
        \A i \in 1..Len(written[s]) : ArtifactKeys(s)[i] <= limit

\* rows are in every artifact while the table holds a row above the limit
C10_Witness ==
    /\ \E r \in table : r[1] > limit
    /\ \A s \in Strategies : written[s] # <<>>

(* ----------------------- properties of the harness -------------------- *)

\* the number of strategies main launches
Launched == Cardinality(Strategies)

\* main has received the Result of strategy s exactly once
ConsumedOnce(s) == CopiesIn(result[s], consumed) = 1

\* C2: with batchSize = 1 (and no failing call) the keyset and the
\* offset/limit strategy eventually terminate, their artifacts holding the
\* full ordered set of rows with primary key <= limit.
C2_BatchSizeOne ==
    (batchSize = 1 /\ broken = Nobody) =>
        <>(\A s \in {CustomCursor, OffsetLimit} :
              /\ pc[s] = "done"
              /\ ExactlyTheSourceRows(s)
              /\ \A i, j \in 1..Len(written[s]) :
                     i < j => ArtifactKeys(s)[i] < ArtifactKeys(s)[j])

\* C3: on every path a strategy sends exactly one Result, never zero and
\* never two, and main has consumed exactly one Result per launched strategy
\* when its drain loop ends.
C3_ResultCardinality ==
    /\ \A s \in Strategies :
          /\ sent[s] <= 1
          /\ pc[s] \in {"return", "done"} => sent[s] = 1
    /\ BagCardinality(consumed) <= Launched
    /\ chanClosed => \A s \in Strategies : sent[s] = 1
    /\ mainPc = "done" =>
          /\ BagCardinality(consumed) = Launched
          /\ \A s \in Strategies : ConsumedOnce(s)

\* main's loop has ended after a run in which one strategy failed while it
\* iterated over a batch
C3_Witness ==
    /\ mainPc = "done"
    /\ \E s \in Strategies : fault[s] = "iterate" /\ result[s].Err # NoErr

\* C4: under fair scheduling the harness eventually reaches DONE: the
\* channel is closed and main's drain loop has exited.
C4_HarnessLiveness == <>(mainPc = "done" /\ chanClosed)

\* C5: in the cursor strategy a failure at any step (declare, fetch, scan,
\* write, commit) yields a Result with a non-nil error and no success
\* message, and the transaction does not stay open or committed.
C5_CursorFailureReported ==
    /\ (sent[Cursor] = 1 /\ fault[Cursor] # "none") =>
          /\ result[Cursor].Err # NoErr
          /\ result[Cursor].Message = ""
    /\ (pc[Cursor] = "done" /\ fault[Cursor] \notin {"none", "create", "begin"}) =>
          tx \in {"rolledback", "aborted"}

\* C6: the strategies that ran to the end without error wrote the same rows:
\* same cardinality, same row tuples.
C6_Equivalence ==
    (\A s \in Strategies : FinishedWithoutError(s)) =>
        \A s, t \in Strategies :
            /\ ArtifactRowSet(s) = ArtifactRowSet(t)
            /\ Len(written[s]) = Len(written[t])

\* C7: once a strategy's batch fetch has failed, every other strategy still
\* runs to completion and its Result is consumed by main.
C7_FailureIsolation ==
    (\E s \in Strategies : fault[s] = "query") ~>
        (\A o \in Strategies : fault[o] # "query" => pc[o] = "done" /\ ConsumedOnce(o))

\* C8: a run in which every strategy succeeds delivers four Results, one of
\* them for the bulk export (copy) strategy.
C8_FourStrategies ==
    (mainPc = "done" /\ \A s \in Strategies : FinishedWithoutError(s)) =>
        /\ BagCardinality(consumed) = 4
        /\ \E r \in BagToSet(consumed) : r.Type = "copy"

(* ------------------- properties of the fetch loops -------------------- *)

\* strategy s has sent its Result and none of its calls failed
SentWithoutFault(s) == pc[s] \in {"return", "done"} /\ fault[s] = "none"

\* C11: if no row of the table has primary key <= limit (the limit is below
\* the smallest key, or the table is empty), every strategy leaves its loop
\* at its first fetch, writes no row, and sends a Result with no error.
C11_EmptyRange ==
    (SourceRows = {}) =>
        \A s \in Strategies :
            /\ written[s] = <<>>
            /\ pc[s] # "rows"
            /\ queries[s] <= 1
            /\ SentWithoutFault(s) =>
                  /\ queries[s] = 1
                  /\ result[s].Err = NoErr
                  /\ result[s].Message = DoneMessage(s)

\* every strategy has returned on a table whose keys are all above the limit
C11_Witness ==
    /\ table # {}
    /\ SourceRows = {}
    /\ \A s \in Strategies :
          pc[s] = "done" /\ fault[s] = "none" /\ queries[s] = 1 /\ written[s] = <<>>

\* the batch the keyset strategy's latest query returned
LatestKeysetBatch == KeysetSelect(table, queried[CustomCursor][1], limit, batchSize)

\* C12: after every keyset batch query that returned a row, the watermark
\* lastId is the largest primary key of that batch, hence greater than the
\* watermark the query used, so the next query is issued with a new one.
C12_WatermarkProgress ==
    (pc[CustomCursor] = "query" /\ queries[CustomCursor] >= 1) =>
        /\ LatestKeysetBatch # <<>>
        /\ lastId = LatestKeysetBatch[Len(LatestKeysetBatch)][1]
        /\ lastId > queried[CustomCursor][1]

\* C13: the watermark of the keyset strategy's first query is below every
\* key of the table, so that query excludes no row: it returns the rows the
\* offset/limit strategy's first query returns.
C13_FirstQueryExcludesNothing ==
    (pc[CustomCursor] = "query" /\ queries[CustomCursor] = 0) =>
        /\ \A r \in table : r[1] > lastId
        /\ KeysetSelect(table, lastId, limit, batchSize)
              = OffsetSelect(table, limit, OffsetInit, batchSize)

\* the errors the keyset and offset/limit strategies wrap with context
WrappedErrors ==
    {"failed to fetch data", "failed to scan row", "error writing record to CSV",
     "error occurred while iterating rows"}

\* C14: in the keyset and the offset/limit strategy a failed query, row
\* scan, row iteration or record write aborts the strategy: it goes straight
\* to its single send, and the Result carries the error wrapped with context
\* and no success message.
C14_BatchFailureAborts ==
    \A s \in {CustomCursor, OffsetLimit} :
        fault[s] \in {"query", "scan", "iterate", "write"} =>
            /\ pc[s] \in {"send", "return", "done"}
            /\ sent[s] <= 1
            /\ result[s].Err \in WrappedErrors
            /\ result[s].Message = ""

(* ----------------------- properties of the protocol -------------------- *)

\* C15: the result channel is closed at most once, by the supervisor, and
\* only after all strategies have signalled completion; each strategy has
\* sent its Result before it signals completion, so no strategy is at or
\* before its send once the channel is closed.
C15_CloseAfterAllDone ==
    /\ closeCount <= 1
    /\ chanClosed <=> (closeCount = 1 /\ supPc = "done")
    /\ wgCount = WgAdd - Cardinality({s \in Strategies : pc[s] = "done"})
    /\ \A s \in Strategies : pc[s] = "done" => sent[s] = 1
    /\ chanClosed =>
          /\ wgCount = 0
          /\ \A s \in Strategies : pc[s] = "done" /\ sent[s] = 1

\* the channel was closed while a Result was still buffered, after a run in
\* which one strategy failed and the other two succeeded
C15_Witness ==
    /\ chanClosed
    /\ errorChan # <<>>
    /\ mainPc = "range"
    /\ \E s \in Strategies :
          /\ result[s].Err # NoErr
          /\ \A o \in Strategies \ {s} : result[o].Message = DoneMessage(o)

TxLogIndex == DOMAIN txLog

FetchEntries == {"fetch", "fetch0", "fetch!", "next!"}

\* C16: in the cursor strategy's transaction DECLARE follows a successful
\* BEGIN, every FETCH follows a successful DECLARE, the cursor is closed
\* only directly after a FETCH that returned no row, COMMIT is attempted directly
\* after a successful CLOSE, and a goroutine that ended without attempting
\* COMMIT has rolled the transaction back.
C16_CursorProtocolOrder ==
    /\ \A i \in TxLogIndex :
          /\ txLog[i] \in {"begin", "begin!"} => i = 1
          /\ txLog[i] \in {"declare", "declare!"} => (i = 2 /\ txLog[1] = "begin")
          /\ txLog[i] \in FetchEntries =>
                (i > 2 /\ txLog[2] = "declare" /\ \A j \in 3..(i - 1) : txLog[j] = "fetch")
          /\ txLog[i] = "close" => (i > 1 /\ txLog[i - 1] = "fetch0")
          /\ txLog[i] \in {"commit", "commit!"} => (i > 1 /\ txLog[i - 1] = "close")
          /\ txLog[i] = "rollback" => i = Len(txLog)
    /\ (tx = "none") <=> (\A i \in TxLogIndex : txLog[i] # "begin")
    /\ (pc[Cursor] = "done" /\ tx # "none"
          /\ \A i \in TxLogIndex : txLog[i] \notin {"commit", "commit!"})
       => (tx = "rolledback" /\ txLog[Len(txLog)] = "rollback")
    /\ (tx = "committed") <=> (txLog # <<>> /\ txLog[Len(txLog)] = "commit")

\* the number of batch queries that drain n rows in batches of bs
QueriesToDrain(n, bs) == ((n + bs - 1) \div bs) + 1

\* C17: the offset/limit strategy's k-th query uses offset (k-1)*batchSize:
\* the offset is 0 at the first query and grows by batchSize after every
\* non-empty batch; the strategy stops at the first empty batch, so that a
\* run without a failing call issues one query more than there are non-empty
\* batches.
C17_OffsetProgress ==
    /\ queries[OffsetLimit] = 0 => (offset = OffsetInit /\ queried[OffsetLimit] = <<>>)
    /\ queries[OffsetLimit] >= 1 =>
          queried[OffsetLimit] = <<(queries[OffsetLimit] - 1) * batchSize>>
    /\ pc[OffsetLimit] = "query" => offset = queries[OffsetLimit] * batchSize
    /\ pc[OffsetLimit] = "rows" => offset = (queries[OffsetLimit] - 1) * batchSize
    /\ queries[OffsetLimit] <= QueriesToDrain(Cardinality(SourceRows), batchSize)
    /\ SentWithoutFault(OffsetLimit) =>
          /\ queries[OffsetLimit] = QueriesToDrain(Cardinality(SourceRows), batchSize)
          /\ OffsetSelect(table, limit, queried[OffsetLimit][1], batchSize) = <<>>

\* the offset/limit strategy finished after three non-empty batches of two
\* rows and an empty fourth one
C17_Witness ==
    /\ pc[OffsetLimit] = "done"
    /\ fault[OffsetLimit] = "none"
    /\ batchSize = 2
    /\ queries[OffsetLimit] = 4
    /\ queried[OffsetLimit] = <<6>>

FileCreated(s) == fault[s] # "create" \/ pc[s] \notin {"send", "return", "done"}

\* C18: when a strategy signals completion its writer has been flushed and
\* its file closed, in this order, on success and on every failure after the
\* file was created; so once the channel is closed every created artifact is
\* flushed and closed and every strategy is past its last write.
C18_ArtifactClosedBeforeDone ==
    /\ \A s \in Strategies :
          /\ pc[s] # "done" => sinkAtDone[s] = "pending"
          /\ pc[s] = "done" =>
                /\ sinkAtDone[s] = IF fault[s] = "create" THEN "none" ELSE "closed"
                /\ sink[s] = sinkAtDone[s]
    /\ chanClosed =>
          \A s \in Strategies : pc[s] = "done" /\ sink[s] \in {"closed", "none"}

\* the channel is closed after a run in which one strategy failed while
\* writing a record; its artifact keeps the rows written before and is closed
C18_Witness ==
    /\ chanClosed
    /\ \E s \in Strategies :
          /\ fault[s] = "write"
          /\ written[s] # <<>>
          /\ sinkAtDone[s] = "closed"
    /\ \A s \in Strategies : sink[s] = "closed"

=============================================================================
